---- MODULE Spec2Model ----
(***************************************************************************)
(* A model of functions/index.js: the WebRTC signaling relay kept in a     *)
(* Firebase Realtime Database under rooms/<roomId>.  Every handler is cut  *)
(* at its awaits: one action per store operation, so that requests can     *)
(* interleave exactly where the JavaScript event loop lets them.           *)
(***************************************************************************)
EXTENDS Integers, Sequences, FiniteSets, TLC

VARIABLES store, inflight, nreq, nextKey, now, janitor

vars == <<store, inflight, nreq, nextKey, now, janitor>>

----------------------------------------------------------------------------
(* Program constants *)

MAX_PLAYERS == 8

ROOM_TIMEOUT == 24 * 60 * 60 * 1000

(* Bounds of the model *)

\* requests accepted in one behaviour
MaxRequests == 2

\* the room ids requests name
Rooms == {"R1"}

\* player ids, in the key order of the database; one more than a room holds
PlayerIds == 1 .. (MAX_PLAYERS + 1)

\* what the template string `${roomData.host}` addresses when the room read
\* has no host field: the key "undefined"
Undefined == 0

Keys == PlayerIds \cup {Undefined}

\* the players that send requests; the others only sit in rooms
Callers == {1, 2, MAX_PLAYERS + 1}

\* the targetId values of offer, answer and ice_candidates
Targets == {1, 2}

\* request.body.data of offer and answer
Payloads == {"sdp"}

NoData == "none"

\* request.body.data of ice_candidates
CandidateLists == {<<"c1">>, <<"c1", "c2">>}

\* the request handlers that can be executing at the same time
Slots == {"a", "b"}

\* sizes of the rooms a behaviour may start from
InitSizes == {1, 2, 3, MAX_PLAYERS - 1, MAX_PLAYERS}

\* sizes of the rooms an interleaved behaviour may start from
SmallSizes == {1, 2, 3}

\* sizes of the rooms older than ROOM_TIMEOUT a behaviour may start from
OldSizes == {1, 2}

\* hosts of the rooms a behaviour may start from
InitHosts == {1, 2}

----------------------------------------------------------------------------
(* The store: the subtree rooms/<roomId> *)

Min(S) == CHOOSE x \in S : \A y \in S : x <= y

RECURSIVE KeyOrder(_)
\* the keys of a snapshot in the order Object.keys and for-in give them
KeyOrder(S) == IF S = {} THEN <<>>
               ELSE <<Min(S)>> \o KeyOrder(S \ {Min(S)})

\* rooms/<roomId> with no data under it: the path does not exist
NoRoom == [host          |-> Undefined,
           players       |-> {},
           createdAt     |-> 0,
           offers        |-> [k \in Keys |-> NoData],
           answers       |-> [k \in Keys |-> NoData],
           ice_candidates |-> [k \in Keys |-> {}],
           notifications |-> [k \in Keys |-> <<>>]]

\* snapshot.exists(), and the truthiness of snapshot.val()
Exists(room) == room # NoRoom

Notification(type, who, data, candidates) ==
    [key |-> nextKey, type |-> type, who |-> who,
     data |-> data, candidates |-> candidates]

\* db.ref(`rooms/${roomId}/notifications/${playerId}`).push(notification)
addNotification(room, playerId, notification) ==
    [room EXCEPT !.notifications[playerId] = Append(@, notification)]

----------------------------------------------------------------------------
(* Requests *)

\* a request: its parameters, the handler's position and locals, its
\* response, and what it saw: the room at its first read (pre) and at its
\* return (post), the next push key at its read (readKey) and at a poll's
\* clear (clearKey)
IdleSlot == [rid |-> 0, action |-> "none", roomId |-> "none",
             playerId |-> Undefined, targetId |-> Undefined,
             data |-> NoData, candidates |-> <<>>,
             pc |-> "idle", host |-> Undefined, updatedPlayers |-> {},
             todo |-> <<>>, notifications |-> <<>>,
             success |-> FALSE, message |-> "none",
             pushed |-> 0, pre |-> NoRoom, post |-> NoRoom,
             readKey |-> 0, clearKey |-> 0]

Running(s) == inflight[s].pc \notin {"idle", "done"}

\* the slot the next request runs in: a free one, else the one whose
\* response is the oldest
NextSlot ==
    IF \E s \in Slots : inflight[s].pc = "idle"
    THEN CHOOSE s \in Slots : /\ inflight[s].pc = "idle"
                              /\ (s = "a" \/ inflight["a"].pc # "idle")
    ELSE IF \E s \in Slots : inflight[s].pc = "done"
    THEN CHOOSE s \in Slots : /\ inflight[s].pc = "done"
                              /\ \A t \in Slots : inflight[t].pc = "done"
                                     => inflight[s].rid <= inflight[t].rid
    ELSE "none"

\* a request arrives and its handler runs up to its first await
Accept(s) == /\ nreq < MaxRequests
             /\ s = NextSlot
             /\ nreq' = nreq + 1

Request(action, roomId, playerId, targetId, data, candidates) ==
    [IdleSlot EXCEPT !.rid = nreq + 1, !.action = action, !.roomId = roomId,
                     !.playerId = playerId, !.targetId = targetId,
                     !.data = data, !.candidates = candidates,
                     !.pre = store[roomId], !.post = store[roomId],
                     !.readKey = nextKey]

\* response.json({success: true, ...result})
Succeed(req, message, room) ==
    [req EXCEPT !.pc = "done", !.success = TRUE, !.message = message,
                !.post = room]

\* the request has pushed one more notification
Pushed(req) == [req EXCEPT !.pushed = @ + 1]

\* response.status(400).json({success: false, message: error.message})
Fail(req, message) ==
    [req EXCEPT !.pc = "done", !.success = FALSE, !.message = message]

----------------------------------------------------------------------------
(* createRoom *)

\* createRoom without the guard on snapshot.exists()
CreateRoomRead_Unguarded(s) ==
    /\ Accept(s)
    /\ \E roomId \in Rooms, hostId \in Callers :
         inflight' = [inflight EXCEPT ![s] =
             [Request("create_room", roomId, hostId, Undefined, NoData, <<>>)
                 EXCEPT !.pc = "set"]]
    /\ UNCHANGED <<store, nextKey, now, janitor>>

CreateRoomRead(s) ==
    /\ Accept(s)
    /\ \E roomId \in Rooms, hostId \in Callers :
         LET req == Request("create_room", roomId, hostId, Undefined,
                            NoData, <<>>)
         IN  inflight' = [inflight EXCEPT ![s] =
                 IF Exists(store[roomId])
                 THEN Fail(req, "Room already exists")
                 ELSE [req EXCEPT !.pc = "set"]]
    /\ UNCHANGED <<store, nextKey, now, janitor>>

CreateRoomSet(s) ==
    LET req  == inflight[s]
        room == [NoRoom EXCEPT !.host = req.playerId,
                               !.players = {req.playerId},
                               !.createdAt = now]
    IN  /\ req.action = "create_room" /\ req.pc = "set"
        /\ store' = [store EXCEPT ![req.roomId] = room]
        /\ inflight' = [inflight EXCEPT ![s] =
                            Succeed(req, "Room created", room)]
        /\ UNCHANGED <<nreq, nextKey, now, janitor>>

----------------------------------------------------------------------------
(* joinRoom *)

\* joinRoom adding the player before it checks the capacity
JoinRoomRead_WritesFirst(s) ==
    /\ Accept(s)
    /\ \E roomId \in Rooms, playerId \in Callers :
         LET req      == Request("join_room", roomId, playerId, Undefined,
                                 NoData, <<>>)
             roomData == store[roomId]
         IN  /\ inflight' = [inflight EXCEPT ![s] =
                   IF ~Exists(roomData)
                   THEN Fail(req, "Room not found")
                   ELSE IF Cardinality(roomData.players) >= MAX_PLAYERS
                   THEN Fail(req, "Room is full")
                   ELSE [req EXCEPT !.pc = "notify", !.host = roomData.host]]
             /\ store' = IF Exists(roomData)
                         THEN [store EXCEPT ![roomId].players =
                                                @ \cup {playerId}]
                         ELSE store
    /\ UNCHANGED <<nextKey, now, janitor>>

\* joinRoom with the capacity check off by one
JoinRoomRead_OffByOne(s) ==
    /\ Accept(s)
    /\ \E roomId \in Rooms, playerId \in Callers :
         LET req      == Request("join_room", roomId, playerId, Undefined,
                                 NoData, <<>>)
             roomData == store[roomId]
         IN  inflight' = [inflight EXCEPT ![s] =
                 IF ~Exists(roomData)
                 THEN Fail(req, "Room not found")
                 ELSE IF Cardinality(roomData.players) > MAX_PLAYERS
                 THEN Fail(req, "Room is full")
                 ELSE [req EXCEPT !.pc = "update", !.host = roomData.host]]
    /\ UNCHANGED <<store, nextKey, now, janitor>>

\* joinRoom letting a player that is already in the room through the
\* capacity check
JoinRoomRead_MemberRejoins(s) ==
    /\ Accept(s)
    /\ \E roomId \in Rooms, playerId \in Callers :
         LET req      == Request("join_room", roomId, playerId, Undefined,
                                 NoData, <<>>)
             roomData == store[roomId]
         IN  inflight' = [inflight EXCEPT ![s] =
                 IF ~Exists(roomData)
                 THEN Fail(req, "Room not found")
                 ELSE IF /\ Cardinality(roomData.players) >= MAX_PLAYERS
                         /\ playerId \notin roomData.players
                 THEN Fail(req, "Room is full")
                 ELSE [req EXCEPT !.pc = "update", !.host = roomData.host]]
    /\ UNCHANGED <<store, nextKey, now, janitor>>

JoinRoomRead(s) ==
    /\ Accept(s)
    /\ \E roomId \in Rooms, playerId \in Callers :
         LET req      == Request("join_room", roomId, playerId, Undefined,
                                 NoData, <<>>)
             roomData == store[roomId]
         IN  inflight' = [inflight EXCEPT ![s] =
                 IF ~Exists(roomData)
                 THEN Fail(req, "Room not found")
                 ELSE IF Cardinality(roomData.players) >= MAX_PLAYERS
                 THEN Fail(req, "Room is full")
                 ELSE [req EXCEPT !.pc = "update", !.host = roomData.host]]
    /\ UNCHANGED <<store, nextKey, now, janitor>>

JoinRoomUpdate(s) ==
    LET req == inflight[s]
    IN  /\ req.action = "join_room" /\ req.pc = "update"
        /\ store' = [store EXCEPT ![req.roomId].players = @ \cup {req.playerId}]
        /\ inflight' = [inflight EXCEPT ![s].pc = "notify"]
        /\ UNCHANGED <<nreq, nextKey, now, janitor>>

\* joinRoom notifying the player that joined instead of the host
JoinRoomNotify_Joiner(s) ==
    LET req  == inflight[s]
        room == addNotification(store[req.roomId], req.playerId,
                    Notification("new_player", req.playerId, NoData, <<>>))
    IN  /\ req.action = "join_room" /\ req.pc = "notify"
        /\ store' = [store EXCEPT ![req.roomId] = room]
        /\ nextKey' = nextKey + 1
        /\ inflight' = [inflight EXCEPT ![s] =
                            Succeed(Pushed(req), "Joined room", room)]
        /\ UNCHANGED <<nreq, now, janitor>>

JoinRoomNotify(s) ==
    LET req  == inflight[s]
        room == addNotification(store[req.roomId], req.host,
                    Notification("new_player", req.playerId, NoData, <<>>))
    IN  /\ req.action = "join_room" /\ req.pc = "notify"
        /\ store' = [store EXCEPT ![req.roomId] = room]
        /\ nextKey' = nextKey + 1
        /\ inflight' = [inflight EXCEPT ![s] =
                            Succeed(Pushed(req), "Joined room", room)]
        /\ UNCHANGED <<nreq, now, janitor>>

----------------------------------------------------------------------------
(* leaveRoom *)

LeaveRoomRead(s) ==
    /\ Accept(s)
    /\ \E roomId \in Rooms, playerId \in Callers :
         LET req      == Request("leave_room", roomId, playerId, Undefined,
                                 NoData, <<>>)
             roomData == store[roomId]
         IN  inflight' = [inflight EXCEPT ![s] =
                 IF ~Exists(roomData)
                 THEN Fail(req, "Room not found")
                 ELSE [req EXCEPT !.pc = "remove", !.host = roomData.host]]
    /\ UNCHANGED <<store, nextKey, now, janitor>>

\* roomRef.child('players').child(playerId).remove()
LeaveRoomRemove(s) ==
    LET req == inflight[s]
    IN  /\ req.action = "leave_room" /\ req.pc = "remove"
        /\ store' = [store EXCEPT ![req.roomId].players = @ \ {req.playerId}]
        /\ inflight' = [inflight EXCEPT ![s].pc = "reread"]
        /\ UNCHANGED <<nreq, nextKey, now, janitor>>

\* leaveRoom looping over the players of its first read, the leaver among
\* them
LeaveRoomReread_FirstRead(s) ==
    LET req            == inflight[s]
        updatedPlayers == store[req.roomId].players
    IN  /\ req.action = "leave_room" /\ req.pc = "reread"
        /\ inflight' = [inflight EXCEPT ![s] =
               [req EXCEPT !.updatedPlayers = updatedPlayers,
                           !.todo = KeyOrder(req.pre.players),
                           !.pc = IF updatedPlayers = {} THEN "close"
                                  ELSE IF req.playerId = req.host
                                  THEN "sethost"
                                  ELSE "notify"]]
        /\ UNCHANGED <<store, nreq, nextKey, now, janitor>>

\* the second read, and the branch the handler takes on it
LeaveRoomReread(s) ==
    LET req            == inflight[s]
        updatedPlayers == store[req.roomId].players
    IN  /\ req.action = "leave_room" /\ req.pc = "reread"
        /\ inflight' = [inflight EXCEPT ![s] =
               [req EXCEPT !.updatedPlayers = updatedPlayers,
                           !.todo = KeyOrder(updatedPlayers),
                           !.pc = IF updatedPlayers = {} THEN "close"
                                  ELSE IF req.playerId = req.host
                                  THEN "sethost"
                                  ELSE "notify"]]
        /\ UNCHANGED <<store, nreq, nextKey, now, janitor>>

\* leaveRoom removing only the players node of the room it closes
LeaveRoomClose_PlayersOnly(s) ==
    LET req  == inflight[s]
        room == [store[req.roomId] EXCEPT !.players = {}]
    IN  /\ req.action = "leave_room" /\ req.pc = "close"
        /\ store' = [store EXCEPT ![req.roomId] = room]
        /\ inflight' = [inflight EXCEPT ![s] =
               Succeed(req, "Room closed (last player left)", room)]
        /\ UNCHANGED <<nreq, nextKey, now, janitor>>

\* roomRef.remove()
LeaveRoomClose(s) ==
    LET req == inflight[s]
    IN  /\ req.action = "leave_room" /\ req.pc = "close"
        /\ store' = [store EXCEPT ![req.roomId] = NoRoom]
        /\ inflight' = [inflight EXCEPT ![s] =
               Succeed(req, "Room closed (last player left)", NoRoom)]
        /\ UNCHANGED <<nreq, nextKey, now, janitor>>

\* Object.keys(updatedPlayers)[0]
NewHost(updatedPlayers) == Head(KeyOrder(updatedPlayers))

\* leaveRoom choosing the new host among the players of the first read
LeaveRoomSetHost_Stale(s) ==
    LET req == inflight[s]
    IN  /\ req.action = "leave_room" /\ req.pc = "sethost"
        /\ store' = [store EXCEPT ![req.roomId].host =
                        NewHost(req.updatedPlayers \cup {req.playerId})]
        /\ inflight' = [inflight EXCEPT ![s].pc = "notify"]
        /\ UNCHANGED <<nreq, nextKey, now, janitor>>

LeaveRoomSetHost(s) ==
    LET req == inflight[s]
    IN  /\ req.action = "leave_room" /\ req.pc = "sethost"
        /\ store' = [store EXCEPT ![req.roomId].host =
                                      NewHost(req.updatedPlayers)]
        /\ inflight' = [inflight EXCEPT ![s].pc = "notify"]
        /\ UNCHANGED <<nreq, nextKey, now, janitor>>

\* one pass of the for-in loop; the handler returns after the last one
LeaveRoomNotify(s) ==
    LET req  == inflight[s]
        room == addNotification(store[req.roomId], Head(req.todo),
                    Notification("player_left", req.playerId, NoData, <<>>))
        rest == Tail(req.todo)
    IN  /\ req.action = "leave_room" /\ req.pc = "notify"
        /\ store' = [store EXCEPT ![req.roomId] = room]
        /\ nextKey' = nextKey + 1
        /\ inflight' = [inflight EXCEPT ![s] =
               IF rest = <<>>
               THEN Succeed(Pushed([req EXCEPT !.todo = rest]), "Left room",
                            room)
               ELSE Pushed([req EXCEPT !.todo = rest])]
        /\ UNCHANGED <<nreq, now, janitor>>

----------------------------------------------------------------------------
(* sendOffer *)

\* sendOffer accepting only offers addressed to the host
SendOfferRead_TargetOnly(s) ==
    /\ Accept(s)
    /\ \E roomId \in Rooms, senderId \in Callers, targetId \in Targets,
          offer \in Payloads :
         LET req      == Request("offer", roomId, senderId, targetId,
                                 offer, <<>>)
             roomData == store[roomId]
         IN  inflight' = [inflight EXCEPT ![s] =
                 IF ~Exists(roomData)
                 THEN Fail(req, "Room not found")
                 ELSE IF targetId # roomData.host
                 THEN Fail(req, "Invalid offer direction")
                 ELSE [req EXCEPT !.pc = "set", !.host = roomData.host]]
    /\ UNCHANGED <<store, nextKey, now, janitor>>

SendOfferRead(s) ==
    /\ Accept(s)
    /\ \E roomId \in Rooms, senderId \in Callers, targetId \in Targets,
          offer \in Payloads :
         LET req      == Request("offer", roomId, senderId, targetId,
                                 offer, <<>>)
             roomData == store[roomId]
         IN  inflight' = [inflight EXCEPT ![s] =
                 IF ~Exists(roomData)
                 THEN Fail(req, "Room not found")
                 ELSE IF senderId # roomData.host /\ targetId # roomData.host
                 THEN Fail(req, "Invalid offer direction")
                 ELSE [req EXCEPT !.pc = "set", !.host = roomData.host]]
    /\ UNCHANGED <<store, nextKey, now, janitor>>

SendOfferSet(s) ==
    LET req == inflight[s]
    IN  /\ req.action = "offer" /\ req.pc = "set"
        /\ store' = [store EXCEPT ![req.roomId].offers[req.playerId] = req.data]
        /\ inflight' = [inflight EXCEPT ![s].pc = "notify"]
        /\ UNCHANGED <<nreq, nextKey, now, janitor>>

SendOfferNotify(s) ==
    LET req  == inflight[s]
        room == addNotification(store[req.roomId], req.targetId,
                    Notification("offer", req.playerId, req.data, <<>>))
    IN  /\ req.action = "offer" /\ req.pc = "notify"
        /\ store' = [store EXCEPT ![req.roomId] = room]
        /\ nextKey' = nextKey + 1
        /\ inflight' = [inflight EXCEPT ![s] =
                            Succeed(Pushed(req), "Offer sent", room)]
        /\ UNCHANGED <<nreq, now, janitor>>

----------------------------------------------------------------------------
(* sendAnswer *)

\* sendAnswer with sendOffer's direction check
SendAnswerRead_Directed(s) ==
    /\ Accept(s)
    /\ \E roomId \in Rooms, senderId \in Callers, targetId \in Targets,
          answer \in Payloads :
         LET req      == Request("answer", roomId, senderId, targetId,
                                 answer, <<>>)
             roomData == store[roomId]
         IN  inflight' = [inflight EXCEPT ![s] =
                 IF ~Exists(roomData)
                 THEN Fail(req, "Room not found")
                 ELSE IF senderId # roomData.host /\ targetId # roomData.host
                 THEN Fail(req, "Invalid offer direction")
                 ELSE [req EXCEPT !.pc = "set", !.host = roomData.host]]
    /\ UNCHANGED <<store, nextKey, now, janitor>>

SendAnswerRead(s) ==
    /\ Accept(s)
    /\ \E roomId \in Rooms, senderId \in Callers, targetId \in Targets,
          answer \in Payloads :
         LET req      == Request("answer", roomId, senderId, targetId,
                                 answer, <<>>)
             roomData == store[roomId]
         IN  inflight' = [inflight EXCEPT ![s] =
                 IF ~Exists(roomData)
                 THEN Fail(req, "Room not found")
                 ELSE [req EXCEPT !.pc = "set", !.host = roomData.host]]
    /\ UNCHANGED <<store, nextKey, now, janitor>>

SendAnswerSet(s) ==
    LET req == inflight[s]
    IN  /\ req.action = "answer" /\ req.pc = "set"
        /\ store' = [store EXCEPT ![req.roomId].answers[req.playerId] = req.data]
        /\ inflight' = [inflight EXCEPT ![s].pc = "notify"]
        /\ UNCHANGED <<nreq, nextKey, now, janitor>>

SendAnswerNotify(s) ==
    LET req  == inflight[s]
        room == addNotification(store[req.roomId], req.targetId,
                    Notification("answer", req.playerId, req.data, <<>>))
    IN  /\ req.action = "answer" /\ req.pc = "notify"
        /\ store' = [store EXCEPT ![req.roomId] = room]
        /\ nextKey' = nextKey + 1
        /\ inflight' = [inflight EXCEPT ![s] =
                            Succeed(Pushed(req), "Answer sent", room)]
        /\ UNCHANGED <<nreq, now, janitor>>

----------------------------------------------------------------------------
(* sendIceCandidates *)

SendIceCandidatesRead(s) ==
    /\ Accept(s)
    /\ \E roomId \in Rooms, senderId \in Callers, targetId \in Targets,
          candidates \in CandidateLists :
         LET req == Request("ice_candidates", roomId, senderId, targetId,
                            NoData, candidates)
         IN  inflight' = [inflight EXCEPT ![s] =
                 IF ~Exists(store[roomId])
                 THEN Fail(req, "Room not found")
                 ELSE [req EXCEPT !.pc = "update"]]
    /\ UNCHANGED <<store, nextKey, now, janitor>>

\* the keys candidate_<Date.now()>_<index> and their values
CandidateUpdates(candidates) ==
    {<<now, index - 1, candidates[index]>> : index \in 1 .. Len(candidates)}

SendIceCandidatesUpdate(s) ==
    LET req == inflight[s]
    IN  /\ req.action = "ice_candidates" /\ req.pc = "update"
        /\ store' = [store EXCEPT ![req.roomId].ice_candidates[req.playerId] =
                        {c \in @ : \A u \in CandidateUpdates(req.candidates) :
                                       <<c[1], c[2]>> # <<u[1], u[2]>>}
                        \cup CandidateUpdates(req.candidates)]
        /\ inflight' = [inflight EXCEPT ![s].pc = "notify"]
        /\ UNCHANGED <<nreq, nextKey, now, janitor>>

SendIceCandidatesNotify(s) ==
    LET req  == inflight[s]
        room == addNotification(store[req.roomId], req.targetId,
                    Notification("new_ice_candidates", req.playerId, NoData,
                                 req.candidates))
    IN  /\ req.action = "ice_candidates" /\ req.pc = "notify"
        /\ store' = [store EXCEPT ![req.roomId] = room]
        /\ nextKey' = nextKey + 1
        /\ inflight' = [inflight EXCEPT ![s] =
                            Succeed(Pushed(req), "ICE candidates sent", room)]
        /\ UNCHANGED <<nreq, now, janitor>>

----------------------------------------------------------------------------
(* pollNotifications *)

\* pollNotifications reading only the newest entry of the mailbox
PollNotificationsRead_Newest(s) ==
    /\ Accept(s)
    /\ \E roomId \in Rooms, playerId \in Callers :
         LET req     == Request("poll_notifications", roomId, playerId,
                                Undefined, NoData, <<>>)
             mailbox == store[roomId].notifications[playerId]
         IN  inflight' = [inflight EXCEPT ![s] =
                 [req EXCEPT !.pc = "remove",
                             !.notifications =
                                 IF mailbox = <<>> THEN <<>>
                                 ELSE <<mailbox[Len(mailbox)]>>]]
    /\ UNCHANGED <<store, nextKey, now, janitor>>

PollNotificationsRead(s) ==
    /\ Accept(s)
    /\ \E roomId \in Rooms, playerId \in Callers :
         LET req == Request("poll_notifications", roomId, playerId, Undefined,
                            NoData, <<>>)
         IN  inflight' = [inflight EXCEPT ![s] =
                 [req EXCEPT !.pc = "remove",
                             !.notifications =
                                 store[roomId].notifications[playerId]]]
    /\ UNCHANGED <<store, nextKey, now, janitor>>

\* pollNotifications clearing the mailboxes of the whole room
PollNotificationsRemove_AllMailboxes(s) ==
    LET req  == inflight[s]
        room == [store[req.roomId] EXCEPT
                     !.notifications = NoRoom.notifications]
    IN  /\ req.action = "poll_notifications" /\ req.pc = "remove"
        /\ store' = [store EXCEPT ![req.roomId] = room]
        /\ inflight' = [inflight EXCEPT ![s] =
               Succeed([req EXCEPT !.clearKey = nextKey], "notifications",
                       room)]
        /\ UNCHANGED <<nreq, nextKey, now, janitor>>

\* pollNotifications removing only the entries that it read
PollNotificationsRemove_ReadOnly(s) ==
    LET req     == inflight[s]
        mailbox == store[req.roomId].notifications[req.playerId]
        room    == [store[req.roomId] EXCEPT
                       !.notifications[req.playerId] =
                           SelectSeq(mailbox, LAMBDA n :
                               \A i \in 1 .. Len(req.notifications) :
                                   req.notifications[i].key # n.key)]
    IN  /\ req.action = "poll_notifications" /\ req.pc = "remove"
        /\ store' = [store EXCEPT ![req.roomId] = room]
        /\ inflight' = [inflight EXCEPT ![s] =
               Succeed([req EXCEPT !.clearKey = nextKey], "notifications",
                       room)]
        /\ UNCHANGED <<nreq, nextKey, now, janitor>>

\* pollNotifications returning what it read without clearing it
PollNotificationsRemove_Keeps(s) ==
    LET req == inflight[s]
    IN  /\ req.action = "poll_notifications" /\ req.pc = "remove"
        /\ inflight' = [inflight EXCEPT ![s] =
               Succeed([req EXCEPT !.clearKey = nextKey], "notifications",
                       store[req.roomId])]
        /\ UNCHANGED <<store, nreq, nextKey, now, janitor>>

PollNotificationsRemove(s) ==
    LET req  == inflight[s]
        room == [store[req.roomId] EXCEPT
                     !.notifications[req.playerId] = <<>>]
    IN  /\ req.action = "poll_notifications" /\ req.pc = "remove"
        /\ store' = [store EXCEPT ![req.roomId] = room]
        /\ inflight' = [inflight EXCEPT ![s] =
               Succeed([req EXCEPT !.clearKey = nextKey], "notifications",
                       room)]
        /\ UNCHANGED <<nreq, nextKey, now, janitor>>

----------------------------------------------------------------------------
(* the default branch of the switch *)

InvalidAction(s) ==
    /\ Accept(s)
    /\ \E roomId \in Rooms :
         inflight' = [inflight EXCEPT ![s] =
             Fail(Request("bogus", roomId, Undefined, Undefined, NoData, <<>>),
                  "Invalid action: bogus")]
    /\ UNCHANGED <<store, nextKey, now, janitor>>

----------------------------------------------------------------------------
(* cleanupInactiveRooms: the scheduled sweep *)

IdleJanitor == [pc |-> "idle", cutoff |-> 0, todo |-> <<>>, removed |-> <<>>]

\* rooms[roomId].createdAt < cutoff; a room without createdAt compares false
Inactive(room, cutoff) == room.createdAt # 0 /\ room.createdAt < cutoff

RECURSIVE InactiveRooms(_, _)
\* the room ids of the snapshot, in for-in order, that the loop will remove
InactiveRooms(ids, cutoff) ==
    IF ids = {} THEN <<>>
    ELSE LET roomId == CHOOSE r \in ids : TRUE
         IN  (IF Inactive(store[roomId], cutoff) THEN <<roomId>> ELSE <<>>)
                 \o InactiveRooms(ids \ {roomId}, cutoff)

\* Date.now(), the cutoff and the read of rooms
CleanupRead ==
    LET cutoff == now - ROOM_TIMEOUT
        todo   == InactiveRooms(Rooms, cutoff)
    IN  /\ janitor.pc = "idle"
        /\ janitor' = [janitor EXCEPT
               !.cutoff = cutoff, !.todo = todo,
               !.pc = IF todo = <<>> THEN "done" ELSE "remove"]
        /\ UNCHANGED <<store, inflight, nreq, nextKey, now>>

\* roomsRef.child(roomId).remove(), one pass of the loop
CleanupRemove ==
    LET roomId == Head(janitor.todo)
        rest   == Tail(janitor.todo)
    IN  /\ janitor.pc = "remove"
        /\ store' = [store EXCEPT ![roomId] = NoRoom]
        /\ janitor' = [janitor EXCEPT
               !.todo = rest,
               !.removed = Append(@, [roomId |-> roomId,
                                      room |-> store[roomId]]),
               !.pc = IF rest = <<>> THEN "done" ELSE "remove"]
        /\ UNCHANGED <<inflight, nreq, nextKey, now>>

----------------------------------------------------------------------------
(* The states a behaviour starts from: the empty database, or one room     *)
(* that its host created and the players 2 .. k (or 1, 3 .. k) joined in   *)
(* key order, with the host's new_player notifications still pending or    *)
(* already polled.  The pending room of one player is the one that player  *)
(* 2 joined and left again.                                                *)

InitNotification(key, type, who) ==
    [key |-> key, type |-> type, who |-> who,
     data |-> NoData, candidates |-> <<>>]

InitMailbox(k, h) ==
    LET others == KeyOrder((1 .. k) \ {h})
    IN  IF k = 1
        THEN <<InitNotification(1, "new_player", 2),
               InitNotification(2, "player_left", 2)>>
        ELSE [i \in 1 .. Len(others) |->
                 InitNotification(i, "new_player", others[i])]

InitRoom(k, h, pending) ==
    [NoRoom EXCEPT
        !.host = h,
        !.players = 1 .. k,
        !.createdAt = 2 * ROOM_TIMEOUT - 60 * 60 * 1000,
        !.notifications[h] = IF pending THEN InitMailbox(k, h) ELSE <<>>]

\* the same room, created 25 hours ago
InitOldRoom(k, h, pending) ==
    [InitRoom(k, h, pending) EXCEPT
        !.createdAt = 2 * ROOM_TIMEOUT - 25 * 60 * 60 * 1000]

Init ==
    /\ now = 2 * ROOM_TIMEOUT
    /\ nreq = 0
    /\ inflight = [s \in Slots |-> IdleSlot]
    /\ janitor = IdleJanitor
    /\ \/ /\ store = [r \in Rooms |-> NoRoom]
          /\ nextKey = 1
       \/ \E k \in InitSizes, h \in InitHosts, pending \in BOOLEAN :
            /\ h <= k
            /\ store = [r \in Rooms |-> InitRoom(k, h, pending)]
            /\ nextKey = IF k = 1 THEN 3 ELSE k
       \/ \E k \in OldSizes, h \in InitHosts, pending \in BOOLEAN :
            /\ h <= k
            /\ store = [r \in Rooms |-> InitOldRoom(k, h, pending)]
            /\ nextKey = IF k = 1 THEN 3 ELSE k

Next ==
    \/ \E s \in Slots :
            \/ CreateRoomRead(s)
            \/ CreateRoomSet(s)
            \/ JoinRoomRead(s)
            \/ JoinRoomUpdate(s)
            \/ JoinRoomNotify(s)
            \/ LeaveRoomRead(s)
            \/ LeaveRoomRemove(s)
            \/ LeaveRoomReread(s)
            \/ LeaveRoomClose(s)
            \/ LeaveRoomSetHost(s)
            \/ LeaveRoomNotify(s)
            \/ SendOfferRead(s)
            \/ SendOfferSet(s)
            \/ SendOfferNotify(s)
            \/ SendAnswerRead(s)
            \/ SendAnswerSet(s)
            \/ SendAnswerNotify(s)
            \/ SendIceCandidatesRead(s)
            \/ SendIceCandidatesUpdate(s)
            \/ SendIceCandidatesNotify(s)
            \/ PollNotificationsRead(s)
            \/ PollNotificationsRemove(s)
            \/ InvalidAction(s)
    \/ CleanupRead
    \/ CleanupRemove

\* interleaved runs start from the empty database or a room of at most
\* three players: larger rooms only lengthen the notification loops
InitSmall ==
    /\ Init
    /\ \A r \in Rooms : Cardinality(store[r].players) \in {0} \cup SmallSizes

Spec == InitSmall /\ [][Next]_vars

\* requests executed one at a time: a request is accepted only when every
\* earlier one has returned
Sequential == \A s \in Slots : ~Running(s)

NextSeq ==
    \E s \in Slots :
        \/ Sequential /\ CreateRoomRead(s)
        \/ CreateRoomSet(s)
        \/ Sequential /\ JoinRoomRead(s)
        \/ JoinRoomUpdate(s)
        \/ JoinRoomNotify(s)
        \/ Sequential /\ LeaveRoomRead(s)
        \/ LeaveRoomRemove(s)
        \/ LeaveRoomReread(s)
        \/ LeaveRoomClose(s)
        \/ LeaveRoomSetHost(s)
        \/ LeaveRoomNotify(s)
        \/ Sequential /\ SendOfferRead(s)
        \/ SendOfferSet(s)
        \/ SendOfferNotify(s)
        \/ Sequential /\ SendAnswerRead(s)
        \/ SendAnswerSet(s)
        \/ SendAnswerNotify(s)
        \/ Sequential /\ SendIceCandidatesRead(s)
        \/ SendIceCandidatesUpdate(s)
        \/ SendIceCandidatesNotify(s)
        \/ Sequential /\ PollNotificationsRead(s)
        \/ PollNotificationsRemove(s)
        \/ Sequential /\ InvalidAction(s)

SpecSeq == Init /\ [][NextSeq]_vars

\* interleaved runs that start while a poll_notifications of player p is
\* between its read (line 203) and its clear (line 207)
InitPolling ==
    /\ now = 2 * ROOM_TIMEOUT
    /\ nreq = 0
    /\ janitor = IdleJanitor
    /\ \E k \in OldSizes, h \in InitHosts, pending \in BOOLEAN :
         /\ h <= k
         /\ store = [r \in Rooms |-> InitOldRoom(k, h, pending)]
         /\ nextKey = IF k = 1 THEN 3 ELSE k
    /\ \E roomId \in Rooms, p \in Targets :
         inflight = [s \in Slots |->
             IF s = "a"
             THEN [Request("poll_notifications", roomId, p, Undefined,
                           NoData, <<>>)
                      EXCEPT !.rid = 0, !.pc = "remove",
                             !.notifications = store[roomId].notifications[p]]
             ELSE IdleSlot]

SpecPolling == InitPolling /\ [][Next]_vars

----------------------------------------------------------------------------
(* What the claims are stated over: the responses kept in the slots, with  *)
(* the room as the request first read it (pre) and as it was when the      *)
(* request returned (post).                                                *)

Done(s, action) == inflight[s].pc = "done" /\ inflight[s].action = action

\* t is the request accepted right after s
Follows(t, s) == inflight[t].rid = inflight[s].rid + 1

\* a notification without its push key
Body(n) == [type |-> n.type, who |-> n.who, data |-> n.data,
            candidates |-> n.candidates]

\* mailbox `after` is mailbox `before` with exactly one entry appended
AppendedOne(before, after, body) ==
    /\ Len(after) = Len(before) + 1
    /\ SubSeq(after, 1, Len(before)) = before
    /\ Body(after[Len(after)]) = body

NoSignaling(room) == /\ room.offers = NoRoom.offers
                     /\ room.answers = NoRoom.answers
                     /\ room.ice_candidates = NoRoom.ice_candidates
                     /\ room.notifications = NoRoom.notifications

(* C1: create_room is rejected with 'Room already exists' exactly when     *)
(* rooms/roomId held data at its read; otherwise it succeeds and the room  *)
(* as it is when the request returns has host = hostId, players =          *)
(* {hostId}, and no offers, answers, candidates or notifications.          *)
C1_CreateRoom ==
    \A s \in Slots : Done(s, "create_room") =>
        LET req == inflight[s]
        IN  /\ (~req.success /\ req.message = "Room already exists")
                   <=> Exists(req.pre)
            /\ ~Exists(req.pre) =>
                  /\ req.success
                  /\ req.post.host = req.playerId
                  /\ req.post.players = {req.playerId}
                  /\ NoSignaling(req.post)

\* a create_room that succeeded on an id a leave_room had just closed
C1_Witness ==
    \E s, t \in Slots :
        /\ Done(s, "leave_room") /\ inflight[s].post = NoRoom
        /\ Exists(inflight[s].pre)
        /\ Done(t, "create_room") /\ Follows(t, s) /\ inflight[t].success
        /\ store[inflight[t].roomId].players = {inflight[t].playerId}

(* C2: join_room fails with 'Room not found' when the room does not exist, *)
(* fails with 'Room is full' when the room has 8 players, also for a       *)
(* playerId that is one of them, and otherwise succeeds with playerId a    *)
(* member of players when it returns.                                      *)
C2_JoinRoom ==
    \A s \in Slots : Done(s, "join_room") =>
        LET req == inflight[s]
        IN  /\ ~Exists(req.pre) =>
                  ~req.success /\ req.message = "Room not found"
            /\ (Exists(req.pre)
                  /\ Cardinality(req.pre.players) = MAX_PLAYERS) =>
                  ~req.success /\ req.message = "Room is full"
            /\ (Exists(req.pre)
                  /\ Cardinality(req.pre.players) < MAX_PLAYERS) =>
                  req.success /\ req.playerId \in req.post.players

\* a member of a full room and a stranger were both turned away
C2_Witness ==
    \E s, t \in Slots :
        /\ Done(s, "join_room") /\ Done(t, "join_room")
        /\ inflight[s].message = "Room is full"
        /\ inflight[s].playerId \in inflight[s].pre.players
        /\ inflight[t].message = "Room is full"
        /\ inflight[t].playerId \notin inflight[t].pre.players

(* C3: with requests executed one at a time, no room ever has more than    *)
(* MAX_PLAYERS players.                                                    *)
C3_Capacity ==
    \A r \in Rooms : Cardinality(store[r].players) <= MAX_PLAYERS

\* a join that filled the room to MAX_PLAYERS
C3_Witness ==
    \E s \in Slots :
        /\ Done(s, "join_room") /\ inflight[s].success
        /\ Cardinality(inflight[s].pre.players) = MAX_PLAYERS - 1
        /\ Cardinality(store[inflight[s].roomId].players) = MAX_PLAYERS

(* C4: leave_room by the only member of players deletes the whole room     *)
(* subtree and returns the room-closed result; the request after it, if a  *)
(* join_room, fails with 'Room not found', and if a create_room, succeeds. *)
C4_LastPlayerLeaves ==
    \A s \in Slots :
        (Done(s, "leave_room")
            /\ inflight[s].pre.players = {inflight[s].playerId}) =>
        /\ inflight[s].success
        /\ inflight[s].message = "Room closed (last player left)"
        /\ inflight[s].post = NoRoom
        /\ \A t \in Slots :
              (Follows(t, s) /\ inflight[t].roomId = inflight[s].roomId) =>
                /\ Done(t, "join_room") =>
                      ~inflight[t].success
                      /\ inflight[t].message = "Room not found"
                /\ inflight[t].action = "create_room" =>
                      inflight[t].pc = "set" \/ inflight[t].success

\* the last player left a room that held a pending notification, and a
\* join_room after it found no room
C4_Witness ==
    \E s, t \in Slots :
        /\ Done(s, "leave_room")
        /\ inflight[s].pre.players = {inflight[s].playerId}
        /\ inflight[s].pre.notifications # NoRoom.notifications
        /\ store[inflight[s].roomId] = NoRoom
        /\ Done(t, "join_room") /\ Follows(t, s)
        /\ inflight[t].message = "Room not found"

(* C5: when the host leaves a room that keeps at least one other member,   *)
(* the room still exists afterwards and its host is one player id, not the *)
(* leaver, and a member of the remaining players; when the leaver is not   *)
(* the host, the host field is unchanged.                                  *)
C5_HostReassigned ==
    \A s \in Slots : Done(s, "leave_room") =>
        LET req == inflight[s]
        IN  /\ (req.playerId = req.pre.host
                  /\ req.pre.players \ {req.playerId} # {}) =>
                  /\ req.success
                  /\ Exists(req.post)
                  /\ req.post.host \in PlayerIds
                  /\ req.post.host # req.playerId
                  /\ req.post.host \in req.post.players
                  /\ req.post.players = req.pre.players \ {req.playerId}
            /\ (Exists(req.pre) /\ req.playerId # req.pre.host) =>
                  req.post.host = req.pre.host

\* the host left a room of three or more and another member is host now
C5_Witness ==
    \E s \in Slots :
        /\ Done(s, "leave_room")
        /\ inflight[s].playerId = inflight[s].pre.host
        /\ Cardinality(inflight[s].pre.players) >= 3
        /\ store[inflight[s].roomId].host # inflight[s].playerId
        /\ store[inflight[s].roomId].host \in store[inflight[s].roomId].players

(* C6: on an existing room, offer fails with 'Invalid offer direction'     *)
(* exactly when neither senderId nor targetId is the host; otherwise it    *)
(* succeeds, offers/senderId holds the payload, targetId's mailbox has     *)
(* gained exactly one offer{from: senderId} and no other mailbox changed.  *)
C6_OfferDirection ==
    \A s \in Slots : (Done(s, "offer") /\ Exists(inflight[s].pre)) =>
        LET req     == inflight[s]
            invalid == /\ req.playerId # req.pre.host
                       /\ req.targetId # req.pre.host
        IN  /\ (~req.success /\ req.message = "Invalid offer direction")
                   <=> invalid
            /\ invalid => req.post = req.pre
            /\ ~invalid =>
                  /\ req.success
                  /\ req.post.offers[req.playerId] = req.data
                  /\ AppendedOne(req.pre.notifications[req.targetId],
                                 req.post.notifications[req.targetId],
                                 [type |-> "offer", who |-> req.playerId,
                                  data |-> req.data, candidates |-> <<>>])
                  /\ \A k \in Keys \ {req.targetId} :
                        req.post.notifications[k] = req.pre.notifications[k]

\* a client's offer to the host went through and a client's offer to
\* another client was refused
C6_Witness ==
    \E s, t \in Slots :
        /\ Done(s, "offer") /\ inflight[s].success
        /\ inflight[s].playerId # inflight[s].pre.host
        /\ inflight[s].targetId = inflight[s].pre.host
        /\ Done(t, "offer")
        /\ inflight[t].message = "Invalid offer direction"
        /\ inflight[t].playerId # inflight[t].targetId

\* the push keys of a mailbox or of a poll's result
KeysOf(mailbox) == {mailbox[i].key : i \in 1 .. Len(mailbox)}

(* C7: no notification is returned by more than one poll_notifications     *)
(* call, whatever the interleaving: the results of two polls never share   *)
(* a pushed entry.                                                         *)
C7_NoRedelivery ==
    \A s, t \in Slots :
        (s # t /\ Done(s, "poll_notifications")
               /\ Done(t, "poll_notifications")) =>
        KeysOf(inflight[s].notifications)
            \cap KeysOf(inflight[t].notifications) = {}

(* C8: of two poll_notifications calls for the same room and player that   *)
(* run one right after the other, the second returns the empty list.       *)
C8_PollAfterDrain ==
    \A s, t \in Slots :
        (/\ Done(s, "poll_notifications") /\ Done(t, "poll_notifications")
         /\ Follows(t, s)
         /\ inflight[t].roomId = inflight[s].roomId
         /\ inflight[t].playerId = inflight[s].playerId) =>
        /\ inflight[s].post.notifications[inflight[s].playerId] = <<>>
        /\ inflight[t].notifications = <<>>

\* the first poll returned pending notifications, the second none
C8_Witness ==
    \E s, t \in Slots :
        /\ Done(s, "poll_notifications") /\ Done(t, "poll_notifications")
        /\ Follows(t, s)
        /\ inflight[t].playerId = inflight[s].playerId
        /\ Len(inflight[s].notifications) >= 2
        /\ inflight[t].notifications = <<>>

(* C9: a successful join_room appends exactly one new_player{playerId} to  *)
(* the mailbox of the room's host, changes no other mailbox, and returns   *)
(* the room's host field as hostId; a poll returns the whole mailbox it    *)
(* read; so after create_room(R, h) and then join_room(R, p) by another    *)
(* player p, h's mailbox is exactly [new_player{p}] and p's is empty.      *)
C9_JoinNotifiesHost ==
    /\ \A s \in Slots : (Done(s, "join_room") /\ inflight[s].success) =>
          LET req == inflight[s]
          IN  /\ AppendedOne(req.pre.notifications[req.pre.host],
                             req.post.notifications[req.pre.host],
                             [type |-> "new_player", who |-> req.playerId,
                              data |-> NoData, candidates |-> <<>>])
              /\ \A k \in Keys \ {req.pre.host} :
                    req.post.notifications[k] = req.pre.notifications[k]
              /\ req.pushed = 1
              /\ req.host = req.post.host
    /\ \A s \in Slots : Done(s, "poll_notifications") =>
          inflight[s].notifications =
              inflight[s].pre.notifications[inflight[s].playerId]
    /\ \A s, t \in Slots :
          (/\ Done(s, "create_room") /\ inflight[s].success
           /\ Done(t, "join_room") /\ inflight[t].success
           /\ Follows(t, s)
           /\ inflight[t].roomId = inflight[s].roomId
           /\ inflight[t].playerId # inflight[s].playerId) =>
          LET h    == inflight[s].playerId
              p    == inflight[t].playerId
              mail == inflight[t].post.notifications
          IN  /\ inflight[t].host = h
              /\ Len(mail[h]) = 1
              /\ mail[h][1].type = "new_player" /\ mail[h][1].who = p
              /\ mail[p] = <<>>

\* create_room by h, then join_room by p: the host's mailbox holds the one
\* new_player entry
C9_Witness ==
    \E s, t \in Slots :
        /\ Done(s, "create_room") /\ inflight[s].success
        /\ Done(t, "join_room") /\ inflight[t].success /\ Follows(t, s)
        /\ inflight[t].playerId # inflight[s].playerId
        /\ Len(store[inflight[t].roomId].notifications[inflight[s].playerId])
               = 1

(* C10: a leave_room that does not close the room appends exactly one      *)
(* player_left{playerId} to the mailbox of every player remaining in       *)
(* players and to no other mailbox; one that closes the room pushes        *)
(* nothing.                                                                *)
C10_LeaveNotifiesRemaining ==
    \A s \in Slots : (Done(s, "leave_room") /\ inflight[s].success) =>
        LET req    == inflight[s]
            closed == req.message = "Room closed (last player left)"
        IN  /\ closed => req.pushed = 0
            /\ closed <=> req.pre.players \ {req.playerId} = {}
            /\ ~closed =>
                  /\ req.post.players = req.pre.players \ {req.playerId}
                  /\ req.pushed = Cardinality(req.post.players)
                  /\ \A k \in Keys :
                        IF k \in req.post.players
                        THEN AppendedOne(req.pre.notifications[k],
                                 req.post.notifications[k],
                                 [type |-> "player_left",
                                  who |-> req.playerId,
                                  data |-> NoData, candidates |-> <<>>])
                        ELSE req.post.notifications[k]
                                 = req.pre.notifications[k]

\* the host left a room of three or more that had pending notifications:
\* the new host and the other member were told
C10_Witness ==
    \E s \in Slots :
        /\ Done(s, "leave_room") /\ inflight[s].success
        /\ inflight[s].playerId = inflight[s].pre.host
        /\ inflight[s].pre.notifications[inflight[s].playerId] # <<>>
        /\ inflight[s].pushed >= 2
        /\ inflight[s].post.host # inflight[s].playerId
        /\ inflight[s].post.notifications[inflight[s].post.host] # <<>>

(* C11: whatever the interleaving, a finished sweep has left no room whose *)
(* createdAt is older than now - ROOM_TIMEOUT, and the sweep never deletes *)
(* a room whose createdAt, when the delete runs, is within the retention   *)
(* window; a room closed and re-created after the sweep's read is spared.  *)
C11_SweepSparesFreshRooms ==
    /\ janitor.pc = "done" =>
          \A r \in Rooms : ~Inactive(store[r], janitor.cutoff)
    /\ \A i \in 1 .. Len(janitor.removed) :
          LET room == janitor.removed[i].room
          IN  ~(room.createdAt # 0 /\ room.createdAt >= janitor.cutoff)

(* C12: every join_room, leave_room, poll_notifications, offer, answer and *)
(* ice_candidates request that names a room with no data in the store      *)
(* fails with 'Room not found'.                                            *)
C12_MissingRoomNotFound ==
    \A s \in Slots :
        (/\ inflight[s].pc = "done"
         /\ inflight[s].action \in {"join_room", "leave_room",
                                    "poll_notifications", "offer", "answer",
                                    "ice_candidates"}
         /\ ~Exists(inflight[s].pre)) =>
        ~inflight[s].success /\ inflight[s].message = "Room not found"

\* the messages of the failure envelope
FailureMessages == {"Room already exists", "Room not found", "Room is full",
                    "Invalid offer direction", "Invalid action: bogus"}

(* C13: a request that answers with the failure envelope has written       *)
(* nothing: the step in which it fails is its first, and it leaves the     *)
(* store and the push keys as they were.                                   *)
C13_FailuresWriteNothing ==
    [][\A s \in Slots :
          (/\ inflight'[s] # inflight[s]
           /\ inflight'[s].pc = "done"
           /\ ~inflight'[s].success) =>
          /\ ~Running(s)
          /\ store' = store
          /\ nextKey' = nextKey
          /\ inflight'[s].message \in FailureMessages]_vars

\* a join_room refused by a full room and an unknown action, both answered
\* with the failure envelope, the room as it was
C13_Witness ==
    \E s, t \in Slots :
        /\ inflight[s].pc = "done" /\ inflight[s].message = "Room is full"
        /\ inflight[t].pc = "done"
        /\ inflight[t].message = "Invalid action: bogus"
        /\ ~inflight[s].success /\ ~inflight[t].success
        /\ store[inflight[s].roomId] = inflight[s].pre

(* C14: whenever no leave_room request is in flight, every room present in *)
(* the store has a host, and that host is one of the room's players.       *)
C14_HostIsMember ==
    (\A s \in Slots : ~(Running(s) /\ inflight[s].action = "leave_room")) =>
    \A r \in Rooms :
        Exists(store[r]) => store[r].host \in store[r].players

(* C15: whenever no request is in flight (and no sweep is half done),      *)
(* every room present in the store, one holding only notifications,        *)
(* offers, answers or ice_candidates included, has at least one player.    *)
C15_NoEmptyRoom ==
    (/\ \A s \in Slots : ~Running(s)
     /\ janitor.pc # "remove") =>
    \A r \in Rooms : Exists(store[r]) => store[r].players # {}

\* the step takes an entry out of player p's mailbox in room r
Removed(r, p) ==
    KeysOf(store[r].notifications[p]) \ KeysOf(store'[r].notifications[p]) # {}

\* the step is the clear of a poll_notifications for room r and player p
PollClears(r, p) ==
    \E s \in Slots : /\ PollNotificationsRemove(s)
                     /\ inflight[s].roomId = r
                     /\ inflight[s].playerId = p

(* C16 as stated: a pending notification leaves the store only in the      *)
(* clear of a poll_notifications for its own room and player.              *)
C16_OnlyPollRemoves ==
    [][\A r \in Rooms, p \in Keys : Removed(r, p) => PollClears(r, p)]_vars

(* C16: a pending notification leaves the store only in the clear of a     *)
(* poll_notifications for its own room and player, or together with its    *)
(* whole room: when leave_room closes the room, when the Janitor removes   *)
(* it, or when create_room's set replaces the room's subtree.              *)
C16_OnlyPollOrRoomWrite ==
    [][\A r \in Rooms, p \in Keys :
          Removed(r, p) =>
          \/ PollClears(r, p)
          \/ /\ store'[r] = NoRoom
             /\ \/ \E s \in Slots : LeaveRoomClose(s) /\ inflight[s].roomId = r
                \/ CleanupRemove /\ Head(janitor.todo) = r
          \/ /\ store'[r].notifications = NoRoom.notifications
             /\ \E s \in Slots : CreateRoomSet(s) /\ inflight[s].roomId = r]_vars

\* a poll has drained pending entries and the Janitor has removed a room
\* that still held some
C16_Witness ==
    /\ \E s \in Slots : /\ Done(s, "poll_notifications")
                        /\ inflight[s].notifications # <<>>
                        /\ inflight[s].post.notifications[inflight[s].playerId]
                               = <<>>
    /\ \E i \in 1 .. Len(janitor.removed) :
           janitor.removed[i].room.notifications # NoRoom.notifications

\* the entries are in the order of their push keys
Ascending(mailbox) ==
    \A i, j \in 1 .. Len(mailbox) : i < j => mailbox[i].key < mailbox[j].key

\* the entries of player p's mailbox that had been pushed when the finished
\* request req returned
Known(req, p) == KeysOf(req.pre.notifications[p])
                     \cup KeysOf(req.post.notifications[p])

\* the entries that the finished request req returned to player p
Drained(req, p) ==
    IF req.action = "poll_notifications" /\ req.playerId = p
    THEN KeysOf(req.notifications) ELSE {}

RelayBody(req) ==
    IF req.action = "answer"
    THEN [type |-> "answer", who |-> req.playerId,
          data |-> req.data, candidates |-> <<>>]
    ELSE [type |-> "new_ice_candidates", who |-> req.playerId,
          data |-> NoData, candidates |-> req.candidates]

(* C18: on an existing room, answer and ice_candidates succeed for every   *)
(* sender and target, host or not, and append exactly one notification,    *)
(* to the target's mailbox only: answer{from: senderId}, or one            *)
(* new_ice_candidates{from: senderId} that carries the whole list.         *)
C18_RelayUndirected ==
    \A s \in Slots :
        (/\ inflight[s].pc = "done"
         /\ inflight[s].action \in {"answer", "ice_candidates"}
         /\ Exists(inflight[s].pre)) =>
        LET req == inflight[s]
        IN  /\ req.success
            /\ req.pushed = 1
            /\ AppendedOne(req.pre.notifications[req.targetId],
                           req.post.notifications[req.targetId],
                           RelayBody(req))
            /\ \A k \in Keys \ {req.targetId} :
                  req.post.notifications[k] = req.pre.notifications[k]

\* an answer and a list of two candidates, each from a player who is not
\* the host to another who is not the host, have both gone through
C18_Witness ==
    \E s, t \in Slots :
        /\ Done(s, "answer") /\ Done(t, "ice_candidates")
        /\ inflight[s].success /\ inflight[t].success
        /\ Exists(inflight[s].pre)
        /\ inflight[s].pre.host \notin {inflight[s].playerId,
                                        inflight[s].targetId}
        /\ inflight[t].pre.host \notin {inflight[t].playerId,
                                        inflight[t].targetId}
        /\ Len(inflight[t].candidates) = 2
        /\ inflight[s].playerId # inflight[s].targetId

\* s is a poll_notifications that has read its mailbox
Polling(s) == /\ inflight[s].action = "poll_notifications"
              /\ inflight[s].pc \in {"remove", "done"}

\* entry n was pushed after the finished poll req had read and before it
\* cleared
InWindow(n, req) == req.readKey <= n.key /\ n.key < req.clearKey

\* the step is slot s's read of a mailbox, respectively its clear
ReadsNow(s) == /\ inflight'[s].rid # inflight[s].rid
               /\ inflight'[s].action = "poll_notifications"
               /\ inflight'[s].pc = "remove"
ClearsNow(s) == /\ inflight[s].action = "poll_notifications"
                /\ inflight[s].pc = "remove"
                /\ inflight'[s].pc = "done"

(* C19 as stated, its first half: an entry pushed between a poll's read    *)
(* and its clear is not in that poll's result, is gone once the poll has   *)
(* cleared, and is in the result of no poll of the same player that was    *)
(* accepted later.                                                         *)
C19_WindowPushLost ==
    /\ \A s \in Slots : Done(s, "poll_notifications") =>
          /\ \A i \in 1 .. Len(inflight[s].notifications) :
                ~InWindow(inflight[s].notifications[i], inflight[s])
          /\ inflight[s].post.notifications[inflight[s].playerId] = <<>>
    /\ \A s, t \in Slots :
          (/\ Done(s, "poll_notifications") /\ Polling(t)
           /\ inflight[t].rid > inflight[s].rid
           /\ inflight[t].roomId = inflight[s].roomId
           /\ inflight[t].playerId = inflight[s].playerId) =>
          \A i \in 1 .. Len(inflight[t].notifications) :
              ~InWindow(inflight[t].notifications[i], inflight[s])

(* C19: an entry pushed between a poll's read and its clear is not in that *)
(* poll's result, is gone once the poll has cleared, and is in the result  *)
(* of no poll of the same player that reads after that clear; and a clear  *)
(* deletes, besides what its poll returns, only entries pushed after the   *)
(* poll's read: an entry pushed outside every such window is returned by   *)
(* the poll that removes it.                                               *)
C19_WindowPushLostAfterClear ==
    [][/\ \A s \in Slots : Done(s, "poll_notifications")' =>
             /\ \A i \in 1 .. Len(inflight'[s].notifications) :
                   inflight'[s].notifications[i].key < inflight'[s].readKey
             /\ inflight'[s].post.notifications[inflight'[s].playerId] = <<>>
       /\ \A s, t \in Slots :
             (/\ Done(s, "poll_notifications") /\ ReadsNow(t)
              /\ inflight'[t].roomId = inflight[s].roomId
              /\ inflight'[t].playerId = inflight[s].playerId) =>
             \A i \in 1 .. Len(inflight'[t].notifications) :
                 inflight'[t].notifications[i].key >= inflight[s].clearKey
       /\ \A s \in Slots : ClearsNow(s) =>
             LET req     == inflight[s]
                 mailbox == store[req.roomId].notifications[req.playerId]
             IN  /\ store'[req.roomId].notifications[req.playerId] = <<>>
                 /\ \A i \in 1 .. Len(mailbox) :
                       \/ mailbox[i].key \in KeysOf(req.notifications)
                       \/ InWindow(mailbox[i], inflight'[s])]_vars

\* an answer pushed an entry to a player whose poll had read and not yet
\* cleared; the poll has returned without it and the mailbox is empty
C19_Witness ==
    \E s, t \in Slots :
        /\ Done(s, "poll_notifications") /\ Done(t, "answer")
        /\ inflight[t].success
        /\ inflight[t].targetId = inflight[s].playerId
        /\ LET mailbox == inflight[t].post.notifications[inflight[s].playerId]
           IN  /\ mailbox # <<>>
               /\ InWindow(mailbox[Len(mailbox)], inflight[s])
               /\ mailbox[Len(mailbox)].key
                      \notin KeysOf(inflight[s].notifications)
        /\ store[inflight[s].roomId].notifications[inflight[s].playerId] = <<>>
        /\ Exists(store[inflight[s].roomId])

(* C20: a successful create_room never writes over a room that is in use:  *)
(* when its set runs, rooms/roomId holds no data, so that of two           *)
(* create_room calls for one id with no deletion between them at most one  *)
(* succeeds and no host, players or pending notifications are replaced.    *)
C20_CreateNeverOverwrites ==
    [][\A s \in Slots :
          (/\ inflight[s].action = "create_room"
           /\ inflight[s].pc = "set"
           /\ inflight'[s].pc = "done") =>
          ~Exists(store[inflight[s].roomId])]_vars

====
